---------------------------- MODULE Spec2Model ----------------------------
(***************************************************************************)
(* Model of the yoga-asana recommender (src/yoga_recommender.py) and of    *)
(* the request handler that drives it (src/app.py).                        *)
(*                                                                         *)
(* State: the MongoDB collection, the recommender object's fields          *)
(* (asanas, asana_map, health_benefits, model, index), the FAISS index     *)
(* objects that were created, and for every request thread its position    *)
(* in recommend_asanas and its locals.                                     *)
(*                                                                         *)
(* Python values whose type is not fixed by the code (a stored age, a      *)
(* stored gender) are records [kind, n, s]: kind "int" carries n, kind     *)
(* "str" carries s, kind "null" is None, kind "absent" is a missing key.   *)
(*                                                                         *)
(* Embeddings are vectors of integers; squared L2 distances are measured   *)
(* in units of 0.12, so that the default threshold 0.6 is the integer 5.   *)
(***************************************************************************)
EXTENDS Integers, Sequences, FiniteSets, TLC

VARIABLES
    collection,       \* the records of the asana_list collection, in find() order
    constructed,      \* YogaAsanaRecommender.__init__ has run
    asanas,           \* self.asanas
    asana_map,        \* self.asana_map : benefit -> list of asanas
    health_benefits,  \* self.health_benefits (list made from a set)
    model,            \* self.model : 0 is None, k > 0 the k-th loaded instance
    loads,            \* how many times SentenceTransformer(...) was constructed
    index,            \* self.index : 0 is None, k > 0 the k-th created index
    indexes,          \* the index objects: indexes[k] is the vectors added to k
    pc,               \* per thread: position in the request
    req,              \* per thread: the form fields of the request
    embeddings,       \* per thread: local `embeddings` of build_faiss_index
    matching,         \* per thread: what find_all_matching_benefits returned
    outcome           \* per thread: what recommend_asanas / the handler produced

vars == <<collection, constructed, asanas, asana_map, health_benefits, model,
          loads, index, indexes, pc, req, embeddings, matching, outcome>>

-----------------------------------------------------------------------------
(* Bounds *)

MaxPoses == 2
MaxLoadPoses == 3
MaxThreads == 2

Threads == 1..MaxThreads

-----------------------------------------------------------------------------
(* Python values *)

IntVal(k) == [kind |-> "int", n |-> k, s |-> ""]
StrVal(t) == [kind |-> "str", n |-> 0, s |-> t]
NullVal == [kind |-> "null", n |-> 0, s |-> ""]
AbsentVal == [kind |-> "absent", n |-> 0, s |-> ""]

\* The decimal strings the model uses, with the integer int() gives for each.
DecimalStrings == [t \in {"0", "30", "40"} |-> CASE t = "0" -> 0
                                                 [] t = "30" -> 30
                                                 [] t = "40" -> 40]

Ok(k) == [raised |-> "", n |-> k]
Raise(e) == [raised |-> e, n |-> 0]

\* Python's int(v): an int is itself, a string is parsed (ValueError when it
\* is not a decimal literal), None raises TypeError.
PyInt(v) ==
    IF v.kind = "int" THEN Ok(v.n)
    ELSE IF v.kind = "str"
         THEN IF v.s \in DOMAIN DecimalStrings THEN Ok(DecimalStrings[v.s])
              ELSE Raise("ValueError")
    ELSE Raise("TypeError")

\* dict.get(key, default) on a stored field.
DictGet(v, default) == IF v.kind = "absent" THEN default ELSE v

\* str.lower() on the gender strings the model uses.
Lower(t) == CASE t = "Female" -> "female"
              [] t = "FEMALE" -> "female"
              [] t = "Male" -> "male"
              [] t = "All" -> "all"
              [] t = "ALL" -> "all"
              [] OTHER -> t

-----------------------------------------------------------------------------
(* The embedding model and the FAISS flat L2 index *)

\* SentenceTransformer.encode on one text: the same text always gives the
\* same vector.
Encode(text) == CASE text = "back pain" -> <<0, 0>>
                  [] text = "stress relief" -> <<2, 0>>
                  [] text = "flexibility" -> <<1, 2>>
                  [] text = "tension" -> <<1, 0>>
                  [] OTHER -> <<9, 9>>

\* model.encode(list): one vector per text, in input order.
EncodeAll(texts) == [i \in 1..Len(texts) |-> Encode(texts[i])]

\* IndexFlatL2's metric: the squared Euclidean distance.
L2(u, v) == (u[1] - v[1]) * (u[1] - v[1]) + (u[2] - v[2]) * (u[2] - v[2])

\* similarity_threshold=0.6, in the distance unit of the model.
SIMILARITY_THRESHOLD == 5

\* IndexFlatL2.search(q, k): the k nearest stored vectors, ascending by
\* distance (equal distances by ascending id), ids counted from 0; when the
\* index holds fewer than k vectors the tail is padded with id -1 and the
\* largest float as distance (pad = TRUE).
RECURSIVE TopK(_, _, _, _)
TopK(ids, stored, q, k) ==
    IF k = 0 THEN <<>>
    ELSE IF ids = {}
         THEN <<[idx |-> -1, dist |-> 0, pad |-> TRUE]>> \o TopK(ids, stored, q, k - 1)
         ELSE LET best == CHOOSE i \in ids : \A j \in ids :
                              \/ L2(stored[i], q) < L2(stored[j], q)
                              \/ L2(stored[i], q) = L2(stored[j], q) /\ i <= j
              IN <<[idx |-> best - 1, dist |-> L2(stored[best], q), pad |-> FALSE]>>
                 \o TopK(ids \ {best}, stored, q, k - 1)

Search(stored, q, k) == TopK(1..Len(stored), stored, q, k)

\* `dist < similarity_threshold` of line 56; the padding distance is above
\* every threshold.
Below(hit, threshold) == ~hit.pad /\ hit.dist < threshold

\* The list comprehension of line 56 over the hits, in order:
\* health_benefits[idx] raises IndexError when idx is past the end of the list.
RECURSIVE SelectBenefits(_, _, _)
SelectBenefits(hits, labels, threshold) ==
    IF hits = <<>> THEN [raised |-> "", list |-> <<>>]
    ELSE LET h == Head(hits)
             rest == SelectBenefits(Tail(hits), labels, threshold)
         IN IF ~Below(h, threshold) THEN rest
            ELSE IF h.idx >= Len(labels) THEN [raised |-> "IndexError", list |-> <<>>]
            ELSE IF rest.raised # "" THEN rest
            ELSE [raised |-> "", list |-> <<labels[h.idx + 1]>> \o rest.list]

-----------------------------------------------------------------------------
(* YogaAsanaRecommender.__init__ *)

\* Mutant: the entry is overwritten instead of appended to.
SetDefaultAppendMutOverwrite(map, benefit, asana) ==
    [b \in DOMAIN map \cup {benefit} |-> IF b = benefit THEN <<asana>> ELSE map[b]]

\* asana_map.setdefault(benefit, []).append(asana)
SetDefaultAppend(map, benefit, asana) ==
    IF benefit \in DOMAIN map
    THEN [map EXCEPT ![benefit] = Append(@, asana)]
    ELSE [b \in DOMAIN map \cup {benefit} |->
              IF b = benefit THEN <<asana>> ELSE map[b]]

\* The inner loop of lines 28-30 for one asana: st is [map, set].
RECURSIVE AddBenefits(_, _, _)
AddBenefits(st, asana, benefits) ==
    IF benefits = <<>> THEN st
    ELSE AddBenefits([map |-> SetDefaultAppend(st.map, Head(benefits), asana),
                      set |-> st.set \cup {Head(benefits)}],
                     asana, Tail(benefits))

\* The outer loop of lines 27-30 over self.asanas.
RECURSIVE LoadAsanas(_, _)
LoadAsanas(st, todo) ==
    IF todo = <<>> THEN st
    ELSE LoadAsanas(AddBenefits(st, Head(todo), Head(todo).health_benefits),
                    Tail(todo))

EmptyMap == [b \in {} |-> <<>>]

\* The lists list(S) can return: a Python set iterates in an order the code
\* does not control.
ListsOf(S) == {q \in [1..Cardinality(S) -> S] : \A i, j \in 1..Cardinality(S) :
                   i # j => q[i] # q[j]}

Idle == [t \in Threads |-> "idle"]
NoRequest == [user_input |-> "", age |-> "", gender |-> ""]
NoMatching == [status |-> "none", error |-> "", list |-> <<>>]
NoOutcome == [status |-> "none", error |-> "", recommendations |-> <<>>,
              response |-> ""]

Construct ==
    /\ ~constructed
    /\ LET st == LoadAsanas([map |-> EmptyMap, set |-> {}], collection)
       IN /\ asanas' = collection
          /\ asana_map' = st.map
          /\ health_benefits' \in ListsOf(st.set)
    /\ model' = 0
    /\ index' = 0
    /\ constructed' = TRUE
    /\ UNCHANGED <<collection, loads, indexes, pc, req, embeddings, matching, outcome>>

-----------------------------------------------------------------------------
(* recommend_asanas: the filter loop of lines 61-76 *)

\* asana_map.get(benefit, [])
MapGet(map, benefit) == IF benefit \in DOMAIN map THEN map[benefit] ELSE <<>>

\* Lines 66-69: int(asana.get("age", 0)), with ValueError turned into 0.
AsanaAge(asana) ==
    LET r == PyInt(DictGet(asana.age, IntVal(0)))
    IN IF r.raised = "ValueError" THEN Ok(0) ELSE r

\* The gender test of line 71. The left operand reads the field with a
\* default, the right operand reads asana["gender"] and raises KeyError when
\* the key is missing; `or` evaluates the right operand only when the left
\* one is false.
GenderTest(asana, gender) ==
    IF Lower(DictGet(asana.gender, StrVal("all")).s) = gender
    THEN [raised |-> "", pass |-> TRUE]
    ELSE IF asana.gender.kind = "absent" THEN [raised |-> "KeyError", pass |-> FALSE]
    ELSE [raised |-> "", pass |-> Lower(asana.gender.s) = "all"]

\* The condition of line 71 for one asana: asana_age <= int(age) and (...).
\* int(age) is evaluated here, once per visited asana; `and` evaluates the
\* gender test only when the age test is true.
Qualifies(asana, age, gender) ==
    LET a == AsanaAge(asana)
        u == PyInt(StrVal(age))
        g == GenderTest(asana, gender)
    IN IF a.raised # "" THEN [raised |-> a.raised, pass |-> FALSE]
       ELSE IF u.raised # "" THEN [raised |-> u.raised, pass |-> FALSE]
       ELSE IF ~(a.n <= u.n) THEN [raised |-> "", pass |-> FALSE]
       ELSE g

\* Mutant: the seen-set test of line 72 is dropped.
RememberMutNoSeenTest(st, asana) ==
    [st EXCEPT !.seen = @ \cup {asana._id}, !.recommended = Append(@, asana)]

\* Mutant: the asana is inserted at the front instead of appended.
RememberMutInsertFront(st, asana) ==
    IF asana._id \notin st.seen
    THEN [st EXCEPT !.seen = @ \cup {asana._id},
                    !.recommended = <<asana>> \o @]
    ELSE st

\* Lines 72-74 for one qualifying asana: st is [raised, seen, recommended].
Remember(st, asana) ==
    IF asana._id \notin st.seen
    THEN [st EXCEPT !.seen = @ \cup {asana._id},
                    !.recommended = Append(@, asana)]
    ELSE st

\* The inner loop of line 65 over the asanas of one benefit.
RECURSIVE VisitAsanas(_, _, _, _)
VisitAsanas(st, todo, age, gender) ==
    IF todo = <<>> \/ st.raised # "" THEN st
    ELSE LET q == Qualifies(Head(todo), age, gender)
         IN IF q.raised # "" THEN [st EXCEPT !.raised = q.raised]
            ELSE VisitAsanas(IF q.pass THEN Remember(st, Head(todo)) ELSE st,
                             Tail(todo), age, gender)

\* The outer loop of line 64 over the matched benefits.
RECURSIVE VisitBenefits(_, _, _, _, _)
VisitBenefits(st, benefits, map, age, gender) ==
    IF benefits = <<>> \/ st.raised # "" THEN st
    ELSE VisitBenefits(VisitAsanas(st, MapGet(map, Head(benefits)), age, gender),
                       Tail(benefits), map, age, gender)

\* Lines 61-76 given the matched benefits.
FilterAsanas(benefits, map, age, gender) ==
    VisitBenefits([raised |-> "", seen |-> {}, recommended |-> <<>>],
                  benefits, map, age, gender)

-----------------------------------------------------------------------------
(* One request: get_recommendations -> recommend_asanas ->                 *)
(* find_all_matching_benefits -> build_faiss_index -> load_model           *)

\* The catalog is immutable once loaded.
Catalog == <<collection, constructed, asanas, asana_map, health_benefits>>

\* app.py lines 66-72: the form fields are read and recommend_asanas called.
Request(t, inputs, ages, genders) ==
    /\ constructed
    /\ pc[t] = "idle"
    /\ \E q \in inputs, a \in ages, g \in genders :
           req' = [req EXCEPT ![t] = [user_input |-> q, age |-> a, gender |-> g]]
    /\ pc' = [pc EXCEPT ![t] = "build_faiss_index"]
    /\ UNCHANGED <<Catalog, model, loads, index, indexes, embeddings, matching,
                   outcome>>

\* Line 44: if self.index is None.
CheckIndex(t) ==
    /\ pc[t] = "build_faiss_index"
    /\ pc' = [pc EXCEPT ![t] = IF index = 0 THEN "load_model" ELSE "search"]
    /\ UNCHANGED <<Catalog, model, loads, index, indexes, req, embeddings,
                   matching, outcome>>

\* Line 38: if self.model is None.
CheckModel(t) ==
    /\ pc[t] = "load_model"
    /\ pc' = [pc EXCEPT ![t] = IF model = 0 THEN "loading" ELSE "encode"]
    /\ UNCHANGED <<Catalog, model, loads, index, indexes, req, embeddings,
                   matching, outcome>>

\* Line 39: self.model = SentenceTransformer(...).
LoadModel(t) ==
    /\ pc[t] = "loading"
    /\ loads' = loads + 1
    /\ model' = loads + 1
    /\ pc' = [pc EXCEPT ![t] = "encode"]
    /\ UNCHANGED <<Catalog, index, indexes, req, embeddings, matching, outcome>>

\* Line 46: embeddings = self.model.encode(self.health_benefits).
EncodeBenefits(t) ==
    /\ pc[t] = "encode"
    /\ embeddings' = [embeddings EXCEPT ![t] = EncodeAll(health_benefits)]
    /\ pc' = [pc EXCEPT ![t] = "create"]
    /\ UNCHANGED <<Catalog, model, loads, index, indexes, req, matching, outcome>>

\* Line 47: self.index = faiss.IndexFlatL2(dim), a new empty index.
CreateIndex(t) ==
    /\ pc[t] = "create"
    /\ indexes' = Append(indexes, <<>>)
    /\ index' = Len(indexes) + 1
    /\ pc' = [pc EXCEPT ![t] = "add"]
    /\ UNCHANGED <<Catalog, model, loads, req, embeddings, matching, outcome>>

\* Line 48: self.index.add(embeddings); self.index is read again here.
AddEmbeddings(t) ==
    /\ pc[t] = "add"
    /\ indexes' = [indexes EXCEPT ![index] = @ \o embeddings[t]]
    /\ pc' = [pc EXCEPT ![t] = "search"]
    /\ UNCHANGED <<Catalog, model, loads, index, req, embeddings, matching, outcome>>

\* Lines 53-56 on the index as it is now.
MatchingBenefits(user_input, stored, labels, threshold) ==
    SelectBenefits(Search(stored, Encode(user_input), Len(labels)), labels, threshold)

\* What the handler answers when recommend_asanas raised: the exception is
\* not caught in get_recommendations and the request fails.
Failed(e) == [status |-> "raised", error |-> e, recommendations |-> <<>>,
              response |-> "error"]

\* Lines 53-56: encode the query, search the index, keep the close labels.
FindMatching(t) ==
    /\ pc[t] = "search"
    /\ LET m == MatchingBenefits(req[t].user_input, indexes[index],
                                 health_benefits, SIMILARITY_THRESHOLD)
       IN IF m.raised # ""
          THEN /\ matching' = [matching EXCEPT ![t] =
                       [status |-> "raised", error |-> m.raised, list |-> <<>>]]
               /\ outcome' = [outcome EXCEPT ![t] = Failed(m.raised)]
               /\ pc' = [pc EXCEPT ![t] = "respond"]
          ELSE /\ matching' = [matching EXCEPT ![t] =
                       [status |-> "returned", error |-> "", list |-> m.list]]
               /\ outcome' = outcome
               /\ pc' = [pc EXCEPT ![t] = "filter"]
    /\ UNCHANGED <<Catalog, model, loads, index, indexes, req, embeddings>>

\* Lines 61-76, then app.py lines 74-84: a non-empty list is rendered and
\* mailed (which the handler reports as sent or as a sending error), an empty
\* one is answered with "No suitable yoga asanas found."
Recommend(t) ==
    /\ pc[t] = "filter"
    /\ LET r == FilterAsanas(matching[t].list, asana_map, req[t].age, req[t].gender)
       IN IF r.raised # ""
          THEN outcome' = [outcome EXCEPT ![t] = Failed(r.raised)]
          ELSE \E answer \in IF r.recommended = <<>> THEN {"none_found"}
                             ELSE {"sent", "send_error"} :
                   outcome' = [outcome EXCEPT ![t] =
                       [status |-> "returned", error |-> "",
                        recommendations |-> r.recommended, response |-> answer]]
    /\ pc' = [pc EXCEPT ![t] = "respond"]
    /\ UNCHANGED <<Catalog, model, loads, index, indexes, req, embeddings, matching>>

\* The handler returns its answer; the locals of the request are gone and
\* the thread can serve the next request.
Respond(t) ==
    /\ pc[t] = "respond"
    /\ pc' = [pc EXCEPT ![t] = "idle"]
    /\ req' = [req EXCEPT ![t] = NoRequest]
    /\ embeddings' = [embeddings EXCEPT ![t] = <<>>]
    /\ matching' = [matching EXCEPT ![t] = NoMatching]
    /\ outcome' = [outcome EXCEPT ![t] = NoOutcome]
    /\ UNCHANGED <<Catalog, model, loads, index, indexes>>

\* A step of lazy initialisation raises: the model cannot be loaded (line
\* 39), encode fails (line 46), the index cannot be created (line 47, before
\* the assignment) or the vectors cannot be added (line 48). The exception
\* leaves build_faiss_index and fails the request.
InitFails(t) ==
    /\ pc[t] \in {"loading", "encode", "create", "add"}
    /\ outcome' = [outcome EXCEPT ![t] = Failed("InitError")]
    /\ pc' = [pc EXCEPT ![t] = "respond"]
    /\ UNCHANGED <<Catalog, model, loads, index, indexes, req, embeddings, matching>>

-----------------------------------------------------------------------------
(* Inputs *)

Pose(id, age, gender, benefits) ==
    [_id |-> id, age |-> age, gender |-> gender, health_benefits |-> benefits]

\* Stored (age, gender) pairs of a catalog record.
Profiles == {<<IntVal(0), StrVal("All")>>,
             <<IntVal(40), StrVal("female")>>,
             <<StrVal("All"), StrVal("Female")>>,
             <<NullVal, StrVal("all")>>,
             <<AbsentVal, AbsentVal>>}

BenefitLists == {<<"back pain">>, <<"stress relief">>,
                 <<"back pain", "stress relief">>}

LoadLabels == {"back pain", "stress relief"}

MaxBenefits == 2

\* Every list of at most n labels, repeated labels included.
RECURSIVE ListsUpTo(_)
ListsUpTo(n) ==
    IF n = 0 THEN {<<>>}
    ELSE LET shorter == ListsUpTo(n - 1)
         IN shorter \cup {Append(l, b) : l \in shorter, b \in LoadLabels}

\* The catalogs of exactly k records with ids 1..k, the i-th record drawn
\* from records[i].
RECURSIVE CatalogsOfLen(_, _)
CatalogsOfLen(k, records) ==
    IF k = 0 THEN {<<>>}
    ELSE {Append(c, r) : c \in CatalogsOfLen(k - 1, records), r \in records[k]}

\* The catalogs of 1..n records.
CatalogsOf(n, records) == UNION {CatalogsOfLen(k, records) : k \in 1..n}

FilterRecords(i) == {Pose(i, p[1], p[2], b) : p \in Profiles, b \in BenefitLists}
LoadRecords(i) == {Pose(i, IntVal(0), StrVal("all"), b) : b \in ListsUpTo(MaxBenefits)}

Queries == {"back pain", "stress relief", "unrelated concern"}
UserAges == {"30", "40", "abc"}
UserGenders == {"female", "Female", "all"}

Start(catalogs) ==
    /\ collection \in catalogs
    /\ constructed = FALSE
    /\ asanas = <<>>
    /\ asana_map = EmptyMap
    /\ health_benefits = <<>>
    /\ model = 0
    /\ loads = 0
    /\ index = 0
    /\ indexes = <<>>
    /\ pc = Idle
    /\ req = [t \in Threads |-> NoRequest]
    /\ embeddings = [t \in Threads |-> <<>>]
    /\ matching = [t \in Threads |-> NoMatching]
    /\ outcome = [t \in Threads |-> NoOutcome]

Step(t) ==
    \/ CheckIndex(t)
    \/ CheckModel(t)
    \/ LoadModel(t)
    \/ EncodeBenefits(t)
    \/ CreateIndex(t)
    \/ AddEmbeddings(t)
    \/ FindMatching(t)
    \/ Recommend(t)
    \/ Respond(t)

\* One request at a time on a catalog of records with varied ages, genders
\* and benefits.
Init == Start(CatalogsOf(MaxPoses, [i \in 1..MaxPoses |-> FilterRecords(i)]))
Next ==
    \/ Construct
    \/ Request(1, Queries, UserAges, UserGenders)
    \/ Step(1)
Spec == Init /\ [][Next]_vars

\* The constructor alone, on catalogs whose records vary in their benefit
\* lists (empty lists, repeated labels, shared labels, no record at all).
InitLoad ==
    Start(CatalogsOf(MaxLoadPoses, [i \in 1..MaxLoadPoses |-> LoadRecords(i)]) \cup {<<>>})
NextLoad == Construct
SpecLoad == InitLoad /\ [][NextLoad]_vars

\* Requests served by concurrent threads (the development server handles
\* each request in its own thread) on a catalog of three labels.
SharedCatalogs ==
    {<<Pose(1, IntVal(0), StrVal("all"), <<"back pain", "stress relief">>),
       Pose(2, IntVal(0), StrVal("all"), <<"stress relief", "flexibility">>)>>}
SharedQueries == {"back pain", "tension", "unrelated concern"}

InitConc == Start(SharedCatalogs)
NextConc ==
    \/ Construct
    \/ \E t \in Threads : Request(t, SharedQueries, {"30"}, {"female"})
    \/ \E t \in Threads : Step(t)
SpecConc == InitConc /\ [][NextConc]_vars

\* One request at a time, where a step of lazy initialisation can fail.
InitFail == Start(SharedCatalogs)
NextFail ==
    \/ Construct
    \/ Request(1, SharedQueries, {"30"}, {"female"})
    \/ Step(1)
    \/ InitFails(1)
SpecFail == InitFail /\ [][NextFail]_vars

-----------------------------------------------------------------------------
(* Properties *)

\* The requests whose recommend_asanas call has returned / has finished.
Returned(t) == pc[t] = "respond" /\ outcome[t].status = "returned"
Finished(t) == pc[t] = "respond"
Matched(t) == matching[t].status = "returned"

Ids(list) == {list[i]._id : i \in 1..Len(list)}
Elems(list) == {list[i] : i \in 1..Len(list)}

\* The asanas the loops of lines 64-65 come across, in the order of the
\* visit: for each matched benefit in turn, its reverse-index list.
RECURSIVE Encounters(_)
Encounters(benefits) ==
    IF benefits = <<>> THEN <<>>
    ELSE MapGet(asana_map, Head(benefits)) \o Encounters(Tail(benefits))

\* C1: the sequence recommend_asanas returns never holds two poses with the
\* same _id, whatever the catalog, the matched benefits, the age and gender.
C1_NoDuplicateIds ==
    \A t \in Threads : Returned(t) =>
        LET r == outcome[t].recommendations
        IN \A i, j \in 1..Len(r) : i # j => r[i]._id # r[j]._id

\* A returned pose was come across more than once: it is listed under two
\* matched benefits.
C1_Witness ==
    \E t \in Threads :
        /\ Returned(t)
        /\ LET enc == Encounters(matching[t].list)
           IN \E i, j \in 1..Len(enc) :
                  /\ i # j
                  /\ enc[i]._id = enc[j]._id
                  /\ enc[i]._id \in Ids(outcome[t].recommendations)

\* The inclusion rule as the specification words it: the threshold of a
\* record whose age is missing or no integer is 0, and both genders are
\* compared without regard to case (a record without gender counts as "all").
RuleAge(asana) ==
    LET r == PyInt(DictGet(asana.age, IntVal(0))) IN IF r.raised = "" THEN r.n ELSE 0
RuleGender(asana) == Lower(DictGet(asana.gender, StrVal("all")).s)
RuleIncludes(asana, age, gender) ==
    /\ RuleAge(asana) <= age
    /\ (RuleGender(asana) = Lower(gender) \/ RuleGender(asana) = "all")

\* C2: the set of poses recommend_asanas returns is exactly the set of poses
\* listed under a matched benefit that satisfy minAge <= age and whose gender
\* equals the requested one without regard to case on either side, or is
\* "all".
C2_InclusionRule ==
    \A t \in Threads : Returned(t) =>
        Elems(outcome[t].recommendations) =
            {a \in Elems(Encounters(matching[t].list)) :
                 RuleIncludes(a, PyInt(StrVal(req[t].age)).n, req[t].gender)}

\* C3: a request whose age field does not parse as an integer ends with an
\* error; recommend_asanas never returns a list for it, empty or not.
C3_MalformedAgeFails ==
    \A t \in Threads :
        Finished(t) /\ PyInt(StrVal(req[t].age)).raised # ""
            => outcome[t].status = "raised"

\* C4: in every interleaving the embedding model is loaded at most once and
\* the similarity index is built at most once.
C4_InitialisedOnce == loads <= 1 /\ Len(indexes) <= 1

\* The labels of the vocabulary strictly closer to the query than threshold.
CloseLabels(user_input, threshold) ==
    {b \in Elems(health_benefits) : L2(Encode(b), Encode(user_input)) < threshold}

\* C5: find_all_matching_benefits returns (it does not raise) exactly the
\* vocabulary labels at distance strictly below the threshold, each once,
\* never more labels than the vocabulary holds.
C5_ExactlyTheCloseLabels ==
    \A t \in Threads : matching[t].status # "none" =>
        /\ Matched(t)
        /\ Elems(matching[t].list) = CloseLabels(req[t].user_input, SIMILARITY_THRESHOLD)
        /\ Cardinality(Elems(matching[t].list)) = Len(matching[t].list)
        /\ Len(matching[t].list) <= Len(health_benefits)

\* A record whose stored age is missing or is no integer.
NoIntegerAge(asana) == PyInt(asana.age).raised # ""

\* C6: a pose whose stored age is absent or does not parse as an integer has
\* threshold 0: the request does not fail on that record, and the pose passes
\* the age test for every non-negative age (it is returned when its gender
\* passes).
C6_UnparsableAgeIsZero ==
    \A t \in Threads : Finished(t) /\ Matched(t) =>
        \A a \in Elems(Encounters(matching[t].list)) : NoIntegerAge(a) =>
            /\ outcome[t].error # "TypeError"
            /\ (Returned(t) /\ GenderTest(a, req[t].gender).pass)
                   => a \in Elems(outcome[t].recommendations)

\* The first place of a pose in the visit.
FirstEncounter(enc, id) ==
    CHOOSE i \in 1..Len(enc) : enc[i]._id = id /\ \A j \in 1..(i - 1) : enc[j]._id # id

\* The place of a pose in the catalog as loaded.
CatalogPlace(id) == CHOOSE i \in 1..Len(asanas) : asanas[i]._id = id

\* C7: the result is ordered by first encounter: the matched benefits come
\* in ascending distance, each benefit's poses in catalog order, and a pose
\* stands where it was first come across; with a single matched benefit the
\* qualifying poses that share it appear once each, in catalog order.
C7_FirstEncounterOrder ==
    \A t \in Threads : Returned(t) =>
        LET r == outcome[t].recommendations
            m == matching[t].list
            enc == Encounters(m)
            q == Encode(req[t].user_input)
        IN /\ \A i, j \in 1..Len(m) : i < j => L2(Encode(m[i]), q) <= L2(Encode(m[j]), q)
           /\ \A i \in 1..Len(r) : r[i] \in Elems(enc)
           /\ \A i, j \in 1..Len(r) :
                  i < j => FirstEncounter(enc, r[i]._id) < FirstEncounter(enc, r[j]._id)
           /\ Len(m) = 1 =>
                  /\ \A a \in Elems(enc) :
                         Qualifies(a, req[t].age, req[t].gender).pass
                             => Cardinality({i \in 1..Len(r) : r[i] = a}) = 1
                  /\ \A i, j \in 1..Len(r) :
                         i < j => CatalogPlace(r[i]._id) < CatalogPlace(r[j]._id)

\* Two poses are returned in the order of the matched benefits, which is not
\* their catalog order.
C7_Witness ==
    \E t \in Threads :
        /\ Returned(t)
        /\ Len(matching[t].list) = 2
        /\ LET r == outcome[t].recommendations
           IN Len(r) >= 2 /\ CatalogPlace(r[1]._id) > CatalogPlace(r[2]._id)

\* C8: after the catalog is loaded the vocabulary has no repeated label and
\* is the key set of the reverse index, every pose the reverse index refers
\* to is a pose of the catalog, and the poses of the reverse index are the
\* catalog poses with at least one benefit label.
C8_CatalogLoaded ==
    constructed =>
        /\ \A i, j \in 1..Len(health_benefits) :
               i # j => health_benefits[i] # health_benefits[j]
        /\ Elems(health_benefits) = DOMAIN asana_map
        /\ \A b \in DOMAIN asana_map : Elems(asana_map[b]) \subseteq Elems(collection)
        /\ UNION {Elems(asana_map[b]) : b \in DOMAIN asana_map}
               = {a \in Elems(collection) : a.health_benefits # <<>>}
        /\ \A b \in DOMAIN asana_map : \A a \in Elems(asana_map[b]) :
               \E i \in 1..Len(a.health_benefits) : a.health_benefits[i] = b

\* A loaded catalog with a pose without benefits and a label two poses share.
C8_Witness ==
    /\ constructed
    /\ \E a \in Elems(collection) : a.health_benefits = <<>>
    /\ \E b \in DOMAIN asana_map : Cardinality(Ids(asana_map[b])) = 2

\* What the request finds when it runs alone against the fully built index.
AloneMatching(user_input) ==
    MatchingBenefits(user_input, EncodeAll(health_benefits), health_benefits,
                     SIMILARITY_THRESHOLD)

\* C9: in every interleaving a request's matched-benefit list is the one the
\* same request produces alone against the fully built index.
C9_SameAsAlone ==
    \A t \in Threads : matching[t].status # "none" =>
        /\ Matched(t)
        /\ matching[t].list = AloneMatching(req[t].user_input).list

\* C10: a failed initialisation leaves no unpopulated or partly populated
\* index cached: whenever no request is inside build_faiss_index the cached
\* index is absent or holds the whole vocabulary, and every request that gets
\* to search finds what it would have found had no failure happened.
C10_FailedInitLeavesNothing ==
    /\ (\A t \in Threads : pc[t] \in {"idle", "respond"}) =>
           (index = 0 \/ indexes[index] = EncodeAll(health_benefits))
    /\ \A t \in Threads : Matched(t) =>
           matching[t].list = AloneMatching(req[t].user_input).list

=============================================================================
